---- MODULE Spec2Model ----
(***************************************************************************)
(* A model of proj2_nps.py: the JSON cache file (open_cache, save_cache),  *)
(* the request key (construct_unique_key), the cached fetcher              *)
(* (make_request_with_cache) and the interactive loop of __main__.         *)
(*                                                                         *)
(* A Python string is a sequence of tokens (TLA+ strings), so that         *)
(* '_'.join really concatenates.  A Python value that str() is applied to  *)
(* is a record [t, s, n]: t = "str" with the string s, or t = "int" with   *)
(* the number n.                                                           *)
(***************************************************************************)
EXTENDS Integers, Sequences, FiniteSets, TLC

\* ------------------------------------------------------------ bounds
\* the number of calls in a run of the function-level specification
MaxCalls == 2
\* the number of entries of a params dict
MaxParams == 2
\* the number of lines typed in a run of the interactive loop
MaxInputs == 4
\* the number of sites a state page lists
MaxSites == 2

\* ------------------------------------------------------------ strings
S(s) == [t |-> "str", s |-> s, n |-> 0]
I(n) == [t |-> "int", s |-> <<>>, n |-> n]

Digits == <<"0", "1", "2", "3", "4", "5", "6", "7", "8", "9">>

RECURSIVE IntToStr(_)
IntToStr(n) ==
    IF n < 10 THEN <<Digits[n + 1]>>
    ELSE IntToStr(n \div 10) \o <<Digits[(n % 10) + 1]>>

\* Python's str(v)
Str(v) == IF v.t = "int" THEN IntToStr(v.n) ELSE v.s

\* sep.join(items)
RECURSIVE Join(_, _)
Join(sep, items) ==
    IF Len(items) = 0 THEN <<>>
    ELSE IF Len(items) = 1 THEN Head(items)
    ELSE Head(items) \o sep \o Join(sep, Tail(items))

\* the list construct_unique_key builds: [baseurl], then extend([str(k), str(v)])
\* for each item of params, in iteration order
RECURSIVE KeyItems(_, _)
KeyItems(items, params) ==
    IF Len(params) = 0 THEN items
    ELSE KeyItems(items \o <<Str(Head(params)[1]), Str(Head(params)[2])>>, Tail(params))

\* construct_unique_key with ''.join in place of '_'.join: C4 fails of it
construct_unique_key_no_separator(baseurl, params) ==
    Join(<<>>, KeyItems(<<baseurl>>, params))

construct_unique_key(baseurl, params) ==
    Join(<<"_">>, KeyItems(<<baseurl>>, params))

\* a params argument: None, or a dict given as the sequence of its items
NoParams == [none |-> TRUE, items |-> <<>>]
Dict(items) == [none |-> FALSE, items |-> items]

\* Python's truth value of params (None and {} are false)
Truthy(params) == ~params.none /\ Len(params.items) > 0

\* the key make_request_with_cache uses
unique_key(url, params) ==
    IF Truthy(params) THEN construct_unique_key(url, params.items) ELSE url

\* ------------------------------------------------------------ the cache file
\* The file: missing, or holding text that is not JSON ("garbage"), JSON that
\* is not an object ("array", "null"), or a JSON object with members m.
NoMembers == [k \in {} |-> <<>>]
FileOf(t) == [t |-> t, m |-> NoMembers]
ObjectFile(m) == [t |-> "object", m |-> m]

\* open(CACHE_FILENAME, 'r') raises when the file is missing
OpenRaises(f) == f.t = "missing"

\* json.loads(text): raises on garbage, else the Python value of the document
json_loads(f) ==
    [raised |-> f.t = "garbage",
     val |-> IF f.t = "object" THEN [t |-> "dict", m |-> f.m]
             ELSE IF f.t = "array" THEN [t |-> "list", m |-> NoMembers]
             ELSE [t |-> "NoneType", m |-> NoMembers]]

\* json.dumps(d) of a dict with string keys and values
json_dumps(d) == ObjectFile(d.m)

EmptyDict == [t |-> "dict", m |-> NoMembers]

\* open_cache(): try: open, read, json.loads  except: {}
open_cache(f) ==
    IF OpenRaises(f) \/ json_loads(f).raised THEN EmptyDict
    ELSE json_loads(f).val

\* dict.update
Update(m1, m2) ==
    [k \in (DOMAIN m1) \cup (DOMAIN m2) |-> IF k \in DOMAIN m2 THEN m2[k] ELSE m1[k]]

\* save_cache without the merge, writing cache_dict alone: C10 fails of it
save_cache_without_merge(f, cache_m) ==
    LET prev_dic == IF OpenRaises(f) \/ json_loads(f).raised THEN EmptyDict
                    ELSE json_loads(f).val
    IN  IF prev_dic.t # "dict"
        THEN [fault |-> "AttributeError", file |-> f]
        ELSE [fault |-> "none", file |-> json_dumps([t |-> "dict", m |-> cache_m])]

\* save_cache(cache_dict): the same guarded read, then prev_dic.update
\* (outside the try: a value that is no dict has no update), dumps and write
save_cache(f, cache_m) ==
    LET prev_dic == IF OpenRaises(f) \/ json_loads(f).raised THEN EmptyDict
                    ELSE json_loads(f).val
    IN  IF prev_dic.t # "dict"
        THEN [fault |-> "AttributeError", file |-> f]
        ELSE [fault |-> "none",
              file |-> json_dumps([t |-> "dict", m |-> Update(prev_dic.m, cache_m)])]

\* ------------------------------------------------------------ the network
\* What requests.get does: a response (any status; .text is its body), or an
\* exception.  requests.get raises for no status code.
Bodies == {<<"b1">>, <<"b2">>}
Response(status, text) == [kind |-> "response", status |-> status, text |-> text]
Raised(kind) == [kind |-> kind, status |-> 0, text |-> <<>>]
NoNet == Raised("none")
NetOutcomes ==
    {Response(200, b) : b \in Bodies} \cup {Response(404, <<"b1">>)}
        \cup {Raised("ConnectionError"), Raised("Timeout")}

\* make_request_with_cache without its save_cache call: C1 fails of it
make_request_without_save(url, params, f, net) ==
    LET key == unique_key(url, params)
        cache_dic == open_cache(f)
    IN  IF cache_dic.t # "dict"
        THEN [fault |-> "AttributeError", result |-> <<>>, source |-> "none",
              gets |-> 0, key |-> key, file |-> f]
        ELSE IF key \in DOMAIN cache_dic.m
        THEN [fault |-> "none", result |-> cache_dic.m[key], source |-> "cache",
              gets |-> 0, key |-> key, file |-> f]
        ELSE IF net.kind # "response"
        THEN [fault |-> net.kind, result |-> <<>>, source |-> "none",
              gets |-> 1, key |-> key, file |-> f]
        ELSE [fault |-> "none", result |-> net.text, source |-> "network",
              gets |-> 1, key |-> key, file |-> f]

\* make_request_with_cache with response.raise_for_status() before .text:
\* the amended C9 fails of it
make_request_raising_for_status(url, params, f, net) ==
    LET key == unique_key(url, params)
        cache_dic == open_cache(f)
    IN  IF cache_dic.t # "dict"
        THEN [fault |-> "AttributeError", result |-> <<>>, source |-> "none",
              gets |-> 0, key |-> key, file |-> f]
        ELSE IF key \in DOMAIN cache_dic.m
        THEN [fault |-> "none", result |-> cache_dic.m[key], source |-> "cache",
              gets |-> 0, key |-> key, file |-> f]
        ELSE IF net.kind # "response"
        THEN [fault |-> net.kind, result |-> <<>>, source |-> "none",
              gets |-> 1, key |-> key, file |-> f]
        ELSE IF net.status # 200
        THEN [fault |-> "HTTPError", result |-> <<>>, source |-> "none",
              gets |-> 1, key |-> key, file |-> f]
        ELSE LET sv == save_cache(f, (key :> net.text))
             IN  [fault |-> sv.fault, result |-> IF sv.fault = "none" THEN net.text ELSE <<>>,
                  source |-> IF sv.fault = "none" THEN "network" ELSE "none",
                  gets |-> 1, key |-> key, file |-> sv.file]

\* make_request_with_cache(url, params) on cache file f, when the GET (if one
\* is issued) ends as net
make_request_with_cache(url, params, f, net) ==
    LET key == unique_key(url, params)
        cache_dic == open_cache(f)
    IN  IF cache_dic.t # "dict"
        THEN \* cache_dic.keys() raises
             [fault |-> "AttributeError", result |-> <<>>, source |-> "none",
              gets |-> 0, key |-> key, file |-> f]
        ELSE IF key \in DOMAIN cache_dic.m
        THEN [fault |-> "none", result |-> cache_dic.m[key], source |-> "cache",
              gets |-> 0, key |-> key, file |-> f]
        ELSE IF net.kind # "response"
        THEN [fault |-> net.kind, result |-> <<>>, source |-> "none",
              gets |-> 1, key |-> key, file |-> f]
        ELSE LET sv == save_cache(f, (key :> net.text))
             IN  [fault |-> sv.fault, result |-> IF sv.fault = "none" THEN net.text ELSE <<>>,
                  source |-> IF sv.fault = "none" THEN "network" ELSE "none",
                  gets |-> 1, key |-> key, file |-> sv.file]

\* whether a call on file f reaches requests.get
IssuesGet(url, params, f) ==
    /\ open_cache(f).t = "dict"
    /\ unique_key(url, params) \notin DOMAIN open_cache(f).m

\* ------------------------------------------------------------ state
VARIABLES
    file,          \* the content of CACHE_FILENAME
    log,           \* function-level runs: the calls made so far, oldest first
    kreq, kkey,    \* key runs: the (url, params) at hand and the key built from it
    state_dic,     \* __main__: the dict build_state_url_dict returned
    pc,            \* __main__: "start", "SelectingState", "SelectingSite", "terminated", "faulted"
    state,         \* __main__: the variable state (<<>> models None)
    site_dic,      \* __main__: the list get_sites_for_state returned
    step,          \* __main__: what the last prompt read and what the handler did
    nearby_calls,  \* __main__: the number of calls of get_nearby_places
    get_calls,     \* __main__: the number of calls of requests.get
    inputs         \* __main__: the number of lines read

vars == <<file, log, kreq, kkey, state_dic, pc, state, site_dic, step, nearby_calls, get_calls, inputs>>
loopVars == <<state_dic, pc, state, site_dic, step, nearby_calls, get_calls, inputs>>

\* ------------------------------------------------------------ inputs
U == <<"u">>
UU == <<"u", "_", "u">>
Urls == {U, UU}
ParamKeys == {S(U), S(UU), I(1)}
ParamVals == {S(U), S(<<"1">>), I(1)}

\* the item lists of the dicts with n entries (a dict's keys are distinct)
ItemSeqs(n) ==
    {s \in [1..n -> ParamKeys \X ParamVals] :
        \A i, j \in 1..n : i # j => s[i][1] # s[j][1]}

ParamsSet ==
    {NoParams} \cup {Dict(s) : s \in UNION {ItemSeqs(n) : n \in 0..MaxParams}}

\* the requests of the function-level runs: with and without params, two
\* pairs of different requests whose keys coincide, and requests whose keys differ
SampleRequests ==
    {<<U, NoParams>>, <<U, Dict(<<>>)>>, <<UU, NoParams>>,
     <<U, Dict(<< <<S(UU), S(U)>> >>)>>, <<UU, Dict(<< <<S(U), S(U)>> >>)>>,
     <<U, Dict(<< <<S(U), I(1)>> >>)>>, <<U, Dict(<< <<S(U), S(<<"1">>)>> >>)>>}

\* the cache files a run can start from
InitFiles ==
    {FileOf("missing"), FileOf("garbage"), FileOf("array"), FileOf("null"),
     ObjectFile(NoMembers), ObjectFile(UU :> <<"old">>)}

NoLoaded == [t |-> "none", m |-> NoMembers]

\* ------------------------------------------------------------ function-level runs
\* a call of make_request_with_cache(url, params)
Fetch ==
    /\ Len(log) < MaxCalls
    /\ \E rq \in SampleRequests :
       \E net \in (IF IssuesGet(rq[1], rq[2], file) THEN NetOutcomes ELSE {NoNet}) :
          LET r == make_request_with_cache(rq[1], rq[2], file, net)
          IN  /\ file' = r.file
              /\ log' = Append(log,
                    [op |-> "fetch", url |-> rq[1], params |-> rq[2], key |-> r.key,
                     val |-> <<>>, net |-> net, fault |-> r.fault, result |-> r.result,
                     source |-> r.source, gets |-> r.gets, loaded |-> NoLoaded,
                     before |-> file, after |-> r.file])
    /\ UNCHANGED <<kreq, kkey, loopVars>>

\* a call of save_cache({k: v})
Save ==
    /\ Len(log) < MaxCalls
    /\ \E k \in Urls, v \in Bodies :
          LET r == save_cache(file, (k :> v))
          IN  /\ file' = r.file
              /\ log' = Append(log,
                    [op |-> "save", url |-> <<>>, params |-> NoParams, key |-> k,
                     val |-> v, net |-> NoNet, fault |-> r.fault, result |-> <<>>,
                     source |-> "none", gets |-> 0, loaded |-> NoLoaded,
                     before |-> file, after |-> r.file])
    /\ UNCHANGED <<kreq, kkey, loopVars>>

\* a call of open_cache()
Load ==
    /\ Len(log) < MaxCalls
    /\ log' = Append(log,
          [op |-> "load", url |-> <<>>, params |-> NoParams, key |-> <<>>,
           val |-> <<>>, net |-> NoNet, fault |-> "none", result |-> <<>>,
           source |-> "none", gets |-> 0, loaded |-> open_cache(file),
           before |-> file, after |-> file])
    /\ UNCHANGED <<file, kreq, kkey, loopVars>>

\* ------------------------------------------------------------ key runs
NoKey == [built |-> FALSE, key |-> <<>>]

\* the key make_request_with_cache computes for the request at hand
BuildKey ==
    /\ ~kkey.built
    /\ kkey' = [built |-> TRUE, key |-> unique_key(kreq.url, kreq.params)]
    /\ UNCHANGED <<file, log, kreq, loopVars>>

\* the next request
NextRequest ==
    /\ kkey.built
    /\ \E u \in Urls, p \in ParamsSet : kreq' = [url |-> u, params |-> p]
    /\ kkey' = NoKey
    /\ UNCHANGED <<file, log, loopVars>>

\* ------------------------------------------------------------ the web
\* The pages the program asks for.  A page's text names what the scraper
\* finds in it; any other text lacks the elements the scraper looks for.
INDEX_URL == <<"https://www.nps.gov/index.htm">>
NEARBY_URL == <<"http://www.mapquestapi.com/search/v2/radius">>
API_KEY == <<"secret">>
ERROR_PAGE == <<"error page">>

StateNames == {"michigan", "ohio"}
\* the sites a state's page lists
SiteCount(name) == IF name = "michigan" THEN MaxSites ELSE 1

StateUrl(name) == <<"https://www.nps.gov", "/state/", name>>
SiteUrl(name, i) == <<"https://www.nps.gov", "/site/", name, Digits[i + 1]>>

\* the text the server holds for a request
Page(url, params) ==
    IF url = INDEX_URL THEN <<"index">>
    ELSE IF url = NEARBY_URL THEN <<"places">>
    ELSE IF url[2] = "/state/" THEN <<"state", url[3]>>
    ELSE <<"site", url[3], url[4]>>

\* how a GET can end: the page, an error page with a non-2xx status, an exception
NetKinds == {"ok", "404", "ConnectionError"}
NetFor(kind, url, params) ==
    IF kind = "ok" THEN Response(200, Page(url, params))
    ELSE IF kind = "404" THEN Response(404, ERROR_PAGE)
    ELSE Raised(kind)

\* ------------------------------------------------------------ the scraper
\* build_state_url_dict(): the index page parsed into name -> url
IsIndexPage(text) == text = <<"index">>
ParseIndex(text) == [name \in {<<n>> : n \in StateNames} |-> StateUrl(name[1])]

IsStatePage(text) == Len(text) = 2 /\ text[1] = "state"
\* the site urls of a state page, in the page's order
ParseState(text) == [i \in 1..SiteCount(text[2]) |-> SiteUrl(text[2], i)]

IsSitePage(text) == Len(text) = 3 /\ text[1] = "site"
\* NationalSite(category, name, address, zipcode, phone)
ParseSite(text) == [name |-> <<text[2], text[3]>>, zipcode |-> <<text[2], text[3]>>]

IsPlacesJson(text) == text = <<"places">>

build_state_url_dict(f, net) ==
    LET r == make_request_with_cache(INDEX_URL, NoParams, f, net)
    IN  [fault |-> IF r.fault # "none" THEN r.fault
                   ELSE IF ~IsIndexPage(r.result) THEN "AttributeError" ELSE "none",
         file |-> r.file, gets |-> r.gets,
         state_dic |-> IF r.fault = "none" /\ IsIndexPage(r.result)
                       THEN ParseIndex(r.result) ELSE NoMembers]

\* the loop of get_sites_for_state: get_site_instance(site_url) for each url,
\* stopping at the first fault; acc is [fault, file, gets, sites]
RECURSIVE SiteInstances(_, _, _)
SiteInstances(urls, kinds, acc) ==
    IF acc.fault # "none" \/ Len(urls) = 0 THEN acc
    ELSE LET r == make_request_with_cache(Head(urls), NoParams, acc.file,
                                          NetFor(Head(kinds), Head(urls), NoParams))
             fault == IF r.fault # "none" THEN r.fault
                      ELSE IF ~IsSitePage(r.result) THEN "AttributeError" ELSE "none"
         IN  SiteInstances(Tail(urls), Tail(kinds),
                [fault |-> fault, file |-> r.file, gets |-> acc.gets + r.gets,
                 sites |-> IF fault = "none" THEN Append(acc.sites, ParseSite(r.result))
                           ELSE acc.sites])

\* get_sites_for_state(state_url): kinds says how each GET ends, the state
\* page's first
get_sites_for_state(state_url, f, kinds) ==
    LET r == make_request_with_cache(state_url, NoParams, f,
                                     NetFor(Head(kinds), state_url, NoParams))
        fault == IF r.fault # "none" THEN r.fault
                 ELSE IF ~IsStatePage(r.result) THEN "AttributeError" ELSE "none"
        acc == [fault |-> fault, file |-> r.file, gets |-> r.gets, sites |-> <<>>]
    IN  IF fault # "none" THEN acc
        ELSE SiteInstances(ParseState(r.result), Tail(kinds), acc)

\* the params get_nearby_places builds
NearbyParams(site) ==
    Dict(<< <<S(<<"key">>), S(API_KEY)>>, <<S(<<"origin">>), S(site.zipcode)>>,
            <<S(<<"radius">>), I(10)>>, <<S(<<"units">>), S(<<"m">>)>>,
            <<S(<<"maxMatches">>), I(10)>>, <<S(<<"ambiguities">>), S(<<"ignore">>)>>,
            <<S(<<"outFormat">>), S(<<"json">>)>> >>)

\* get_nearby_places(site_object)['searchResults']
get_nearby_places(site, f, kind) ==
    LET r == make_request_with_cache(NEARBY_URL, NearbyParams(site), f,
                                     NetFor(kind, NEARBY_URL, NearbyParams(site)))
    IN  [fault |-> IF r.fault # "none" THEN r.fault
                   ELSE IF ~IsPlacesJson(r.result) THEN "JSONDecodeError" ELSE "none",
         file |-> r.file, gets |-> r.gets]

\* ------------------------------------------------------------ the input lines
EXIT == <<"exit">>
BACK == <<"back">>
\* str.lower()
LowerToken(c) == IF c = "Michigan" THEN "michigan" ELSE IF c = "Exit" THEN "exit" ELSE c
Lower(line) == [i \in 1..Len(line) |-> LowerToken(line[i])]

DecimalChars == {Digits[i] : i \in 1..Len(Digits)}
\* characters with a numeric value that are no decimal digits
OtherNumericChars == {"½"}
\* str.isnumeric(): not empty, and every character is numeric
isnumeric(line) ==
    Len(line) > 0 /\ \A i \in 1..Len(line) : line[i] \in DecimalChars \cup OtherNumericChars
\* int(line) raises ValueError unless every character is a decimal digit
IntRaises(line) == \E i \in 1..Len(line) : line[i] \notin DecimalChars
DigitValue(c) == CHOOSE d \in 0..9 : Digits[d + 1] = c
RECURSIVE int(_)
int(line) ==
    IF Len(line) = 0 THEN 0
    ELSE 10 * int(SubSeq(line, 1, Len(line) - 1)) + DigitValue(line[Len(line)])

\* the range test with 0 as first index: C6 fails of it
IndexInRangeFromZero(num, sites) == int(num) >= 0 /\ int(num) <= Len(sites)

\* the range test of the loop: int(num) >= 1 and int(num) <= len(site_dic)
IndexInRange(num, sites) == int(num) >= 1 /\ int(num) <= Len(sites)

\* list[i] in Python: 0-based, a negative i counts from the end
PyIndex(list, i) == IF i < 0 THEN list[Len(list) + i + 1] ELSE list[i + 1]

Lines ==
    {EXIT, BACK, <<"michigan">>, <<"Michigan">>, <<"ohio">>, <<"texas">>, <<"Exit">>,
     <<"0", "1">>, <<"½">>, <<"-", "1">>, <<>>}
        \cup {<<Digits[i + 1]>> : i \in 0..(MaxSites + 1)}

\* ------------------------------------------------------------ __main__
Step(prompt, line, did, fault, printed) ==
    [prompt |-> prompt, input |-> line, did |-> did, fault |-> fault, printed |-> printed]

\* state_dic = build_state_url_dict(); state = None
Startup ==
    /\ pc = "start"
    /\ \E kind \in NetKinds :
          LET r == build_state_url_dict(file, NetFor(kind, INDEX_URL, NoParams))
          IN  /\ file' = r.file
              /\ state_dic' = r.state_dic
              /\ get_calls' = get_calls + r.gets
              /\ pc' = IF r.fault = "none" THEN "SelectingState" ELSE "faulted"
              /\ step' = Step("none", <<>>, "startup", r.fault, "none")
    /\ UNCHANGED <<log, kreq, kkey, state, site_dic, nearby_calls, inputs>>

\* the prompt for a state name (state is None) and what follows it, up to the
\* next prompt
PromptState ==
    /\ pc = "SelectingState"
    /\ inputs < MaxInputs
    /\ inputs' = inputs + 1
    /\ \E line \in Lines :
          IF line = EXIT
          THEN /\ pc' = "terminated"
               /\ state' = line
               /\ step' = Step("state", line, "exit", "none", "none")
               /\ UNCHANGED <<file, site_dic, get_calls>>
          ELSE IF Lower(line) \notin DOMAIN state_dic
          THEN /\ pc' = "SelectingState"
               /\ state' = <<>>
               /\ step' = Step("state", line, "bad_state", "none",
                               "[Error] Please a enter proper state name")
               /\ UNCHANGED <<file, site_dic, get_calls>>
          ELSE \E kinds \in [1..(1 + SiteCount(Lower(line)[1])) -> NetKinds] :
               LET r == get_sites_for_state(state_dic[Lower(line)], file, kinds)
               IN  /\ file' = r.file
                   /\ get_calls' = get_calls + r.gets
                   /\ state' = line
                   /\ site_dic' = IF r.fault = "none" THEN r.sites ELSE site_dic
                   /\ pc' = IF r.fault = "none" THEN "SelectingSite" ELSE "faulted"
                   /\ step' = Step("state", line, "listed", r.fault,
                                   IF r.fault = "none" THEN "site list" ELSE "none")
    /\ UNCHANGED <<log, kreq, kkey, state_dic, nearby_calls>>

\* the prompt for a number, 'exit' or 'back' and what follows it
PromptSite ==
    /\ pc = "SelectingSite"
    /\ inputs < MaxInputs
    /\ inputs' = inputs + 1
    /\ \E num \in Lines :
          IF num = EXIT
          THEN /\ pc' = "terminated"
               /\ step' = Step("site", num, "exit", "none", "none")
               /\ UNCHANGED <<file, state, get_calls, nearby_calls>>
          ELSE IF num = BACK
          THEN /\ pc' = "SelectingState"
               /\ state' = <<>>
               /\ step' = Step("site", num, "back", "none", "none")
               /\ UNCHANGED <<file, get_calls, nearby_calls>>
          ELSE IF isnumeric(num) /\ IntRaises(num)
          THEN \* int(num) raises ValueError
               /\ pc' = "faulted"
               /\ step' = Step("site", num, "none", "ValueError", "none")
               /\ UNCHANGED <<file, state, get_calls, nearby_calls>>
          ELSE IF isnumeric(num) /\ IndexInRange(num, site_dic)
          THEN \E kind \in NetKinds :
               LET r == get_nearby_places(PyIndex(site_dic, int(num) - 1), file, kind)
               IN  /\ file' = r.file
                   /\ get_calls' = get_calls + r.gets
                   /\ nearby_calls' = nearby_calls + 1
                   /\ pc' = IF r.fault = "none" THEN "SelectingSite" ELSE "faulted"
                   /\ step' = Step("site", num, "nearby", r.fault,
                                   IF r.fault = "none" THEN "places" ELSE "none")
                   /\ UNCHANGED state
          ELSE /\ pc' = "SelectingSite"
               /\ step' = Step("site", num, "invalid", "none", "[Error] Invalid input")
               /\ UNCHANGED <<file, state, get_calls, nearby_calls>>
    /\ UNCHANGED <<log, kreq, kkey, state_dic, site_dic>>

\* ------------------------------------------------------------ specifications
NoStep == Step("none", <<>>, "none", "none", "none")

LoopIdle ==
    /\ pc = "start" /\ state = <<>> /\ site_dic = <<>> /\ step = NoStep
    /\ state_dic = NoMembers
    /\ nearby_calls = 0 /\ get_calls = 0 /\ inputs = 0

CacheInit ==
    /\ file \in InitFiles
    /\ log = <<>>
    /\ kreq = [url |-> U, params |-> NoParams] /\ kkey = NoKey
    /\ LoopIdle

CacheNext == Fetch \/ Save \/ Load

CacheSpec == CacheInit /\ [][CacheNext]_vars

KeyInit ==
    /\ file = FileOf("missing")
    /\ log = <<>>
    /\ \E u \in Urls, p \in ParamsSet : kreq = [url |-> u, params |-> p]
    /\ kkey = NoKey
    /\ LoopIdle

KeyNext == BuildKey \/ NextRequest

KeySpec == KeyInit /\ [][KeyNext]_vars

\* the cache files a session can start from: none, unreadable ones, an empty
\* one, and one an earlier session left with an error page stored for a state
LoopFiles ==
    {FileOf("missing"), FileOf("garbage"), FileOf("array"), ObjectFile(NoMembers),
     ObjectFile(StateUrl("ohio") :> ERROR_PAGE)}

Init ==
    /\ file \in LoopFiles
    /\ log = <<>>
    /\ kreq = [url |-> U, params |-> NoParams] /\ kkey = NoKey
    /\ LoopIdle

Next == Startup \/ PromptState \/ PromptSite

Spec == Init /\ [][Next]_vars

\* ============================================================ claims
\* the entries a cache file holds
Entries(f) == IF f.t = "object" THEN f.m ELSE NoMembers

IsFetch(e) == e.op = "fetch"
Completed(e) == e.fault = "none"
SameArgs(a, b) == a.url = b.url /\ a.params = b.params

\* ------------------------------------------------------------ C1
\* C1: in a run of make_request_with_cache calls, of two calls with identical
\* (url, params) that both complete, the later one issues no GET, takes its
\* result from the cache and returns the body the earlier one returned; so
\* the two issue at most one GET.
C1_SecondCallFromCache ==
    \A i, j \in 1..Len(log) :
        (/\ i < j
         /\ \A k \in i..j : IsFetch(log[k])
         /\ Completed(log[i]) /\ Completed(log[j])
         /\ SameArgs(log[i], log[j]))
        => /\ log[j].gets = 0
           /\ log[j].source = "cache"
           /\ log[j].result = log[i].result
           /\ log[i].gets + log[j].gets <= 1

\* a first call answered by the network, then the same call again
C1_Witness ==
    \E i, j \in 1..Len(log) :
        /\ i < j /\ IsFetch(log[i]) /\ IsFetch(log[j])
        /\ SameArgs(log[i], log[j])
        /\ log[i].source = "network" /\ Completed(log[j])
        /\ Truthy(log[i].params)

\* ------------------------------------------------------------ C2
\* C2: for every prior cache content, save_cache({k: v}) followed by
\* open_cache() yields a mapping in which k maps to v and every key saved
\* before, other than k, still has its value.
C2_SaveThenLoad ==
    \A i \in 1..Len(log) :
        (i > 1 /\ log[i - 1].op = "save" /\ log[i].op = "load")
        => LET k == log[i - 1].key
               prior == Entries(log[i - 1].before)
               got == log[i].loaded
           IN  /\ got.t = "dict"
               /\ k \in DOMAIN got.m /\ got.m[k] = log[i - 1].val
               /\ \A k2 \in (DOMAIN prior) \ {k} :
                     k2 \in DOMAIN got.m /\ got.m[k2] = prior[k2]

\* ------------------------------------------------------------ C3
\* C3: whatever the cache file holds, open_cache returns a mapping, the empty
\* one when the file is missing or malformed, and neither
\* make_request_with_cache nor save_cache faults because of the file's content.
C3_LoadNeverFails ==
    \A i \in 1..Len(log) :
        /\ log[i].op = "load" =>
              /\ log[i].loaded.t = "dict"
              /\ log[i].before.t \in {"missing", "garbage"} => log[i].loaded.m = NoMembers
        /\ log[i].op \in {"fetch", "save"} => log[i].fault # "AttributeError"

\* ------------------------------------------------------------ C4
\* the length of the first j parts and of the separators before each
RECURSIVE C4_PrefixLen(_, _)
C4_PrefixLen(parts, j) ==
    IF j = 0 THEN 0 ELSE C4_PrefixLen(parts, j - 1) + Len(parts[j]) + 1

\* key is the parts in order, one "_" between neighbours
C4_IsJoined(key, parts) ==
    /\ Len(key) = C4_PrefixLen(parts, Len(parts)) - 1
    /\ \A j \in 1..Len(parts) :
          LET from == C4_PrefixLen(parts, j - 1) + 1
          IN  /\ SubSeq(key, from, from + Len(parts[j]) - 1) = parts[j]
              /\ j > 1 => key[from - 1] = "_"

\* url, then each item's key and value
C4_Parts(url, items) ==
    [j \in 1..(2 * Len(items) + 1) |->
        IF j = 1 THEN url
        ELSE IF j % 2 = 0 THEN Str(items[j \div 2][1])
        ELSE Str(items[(j - 1) \div 2][2])]

\* C4: the key built for (url, params) is url alone when params is empty or
\* absent, and otherwise url followed by each parameter's key and value in
\* iteration order, joined by "_": the arguments determine it.
C4_KeyShape ==
    kkey.built =>
        IF kreq.params.none \/ kreq.params.items = <<>>
        THEN kkey.key = kreq.url
        ELSE C4_IsJoined(kkey.key, C4_Parts(kreq.url, kreq.params.items))

\* a key built from two parameters, one value an int
C4_Witness ==
    /\ kkey.built
    /\ Len(kreq.params.items) = 2
    /\ kreq.params.items[2][2] = I(1)
    /\ kreq.params.items[1][1] = S(UU)

\* ------------------------------------------------------------ C5
\* two calls ask for the same thing: the url, and the parameters as sent
C5_SameRequest(a, b) ==
    /\ a.url = b.url
    /\ Len(a.params.items) = Len(b.params.items)
    /\ \A n \in 1..Len(a.params.items) :
          /\ Str(a.params.items[n][1]) = Str(b.params.items[n][1])
          /\ Str(a.params.items[n][2]) = Str(b.params.items[n][2])

\* C5: requests that differ in baseurl or params get different keys, so no
\* call returns a cached body that was stored for a different request.
C5_KeyIdentifiesRequest ==
    \A i, j \in 1..Len(log) :
        (/\ i < j /\ IsFetch(log[i]) /\ IsFetch(log[j])
         /\ log[i].source = "network" /\ log[j].source = "cache"
         /\ log[j].key = log[i].key)
        => C5_SameRequest(log[i], log[j])

\* ------------------------------------------------------------ C9
C9_Miss(e) == IsFetch(e) /\ e.gets = 1

\* C9 as claimed: on a miss, a GET that ends in a connection failure, a
\* timeout or a non-2xx status returns no body and faults.
C9_FailurePropagates ==
    \A i \in 1..Len(log) :
        (C9_Miss(log[i]) /\ (log[i].net.kind # "response" \/ log[i].net.status # 200))
        => log[i].fault # "none" /\ log[i].source = "none"

\* C9 amended: on a miss, a GET that raises (connection failure, timeout)
\* returns no body, leaves the cache file as it was and propagates the
\* exception; a response is no failure whatever its status: its body is
\* stored under the key and returned.
C9_OnlyExceptionsPropagate ==
    \A i \in 1..Len(log) :
        C9_Miss(log[i]) =>
            IF log[i].net.kind # "response"
            THEN /\ log[i].fault = log[i].net.kind
                 /\ log[i].source = "none"
                 /\ log[i].after = log[i].before
            ELSE /\ log[i].fault = "none"
                 /\ log[i].result = log[i].net.text
                 /\ log[i].key \in DOMAIN Entries(log[i].after)
                 /\ Entries(log[i].after)[log[i].key] = log[i].net.text

\* one call ended by an exception, one answered with status 404
C9_Witness ==
    \E i, j \in 1..Len(log) :
        /\ C9_Miss(log[i]) /\ log[i].net.kind \in {"ConnectionError", "Timeout"}
        /\ log[i].fault # "none"
        /\ C9_Miss(log[j]) /\ log[j].net.kind = "response" /\ log[j].net.status = 404
        /\ log[j].source = "network"

\* ------------------------------------------------------------ C10
\* C10: a call whose key is in the cache issues no GET and leaves the file
\* as it is; a call whose key is absent and that gets a response adds the
\* entry key -> body and nothing else; every entry persisted before a call is
\* there after it, with its value.
C10_CacheOnlyGrows ==
    \A i \in 1..Len(log) :
        IsFetch(log[i]) =>
            LET e == log[i]
                old == Entries(e.before)
                new == Entries(e.after)
            IN  /\ \A k \in DOMAIN old : k \in DOMAIN new /\ new[k] = old[k]
                /\ (e.before.t = "object" /\ e.key \in DOMAIN old)
                      => e.gets = 0 /\ e.after = e.before
                /\ (e.key \notin DOMAIN old /\ e.net.kind = "response")
                      => /\ DOMAIN new = (DOMAIN old) \cup {e.key}
                         /\ new[e.key] = e.net.text
                         /\ e.after.t = "object"

\* a miss that adds its entry to a file that already held another one
C10_Witness ==
    \E i \in 1..Len(log) :
        /\ IsFetch(log[i]) /\ log[i].source = "network"
        /\ DOMAIN Entries(log[i].before) # {}
        /\ Cardinality(DOMAIN Entries(log[i].after)) = 2

\* ------------------------------------------------------------ C6
\* the line is a decimal numeral of a number in 1..n
C6_IsIndex(line, n) ==
    /\ Len(line) > 0
    /\ \A i \in 1..Len(line) : line[i] \in DecimalChars
    /\ \E k \in 1..n : int(line) = k

\* the line is a decimal numeral
C6_IsNumeral(line) == Len(line) > 0 /\ \A i \in 1..Len(line) : line[i] \in DecimalChars

\* what C6 says of one step of the loop
C6_Step ==
    LET asked == pc = "SelectingSite" /\ C6_IsIndex(step'.input, Len(site_dic))
       IN  /\ nearby_calls' = nearby_calls + (IF asked THEN 1 ELSE 0)
           /\ (pc = "SelectingSite" /\ C6_IsNumeral(step'.input) /\ ~asked)
                 => step'.printed = "[Error] Invalid input" /\ step'.did = "invalid"

\* C6: get_nearby_places is called once for each line read while a state is
\* selected that is a 1-based index within the site list, and for no other
\* line; an index out of range prints the invalid-input message.
C6_NearbyOnlyForValidIndex == [][C6_Step]_vars

\* michigan, 1, then an index above the list
C6_Witness ==
    /\ nearby_calls = 1
    /\ step.prompt = "site" /\ step.input = <<Digits[MaxSites + 2]>>
    /\ step.printed = "[Error] Invalid input"

\* ------------------------------------------------------------ C7, C8
\* faults that come from outside: the network, a page's markup, the API's answer
ExternalFaults == {"ConnectionError", "Timeout", "AttributeError", "JSONDecodeError"}
SessionOver(p) == p \in {"terminated", "faulted"}

\* what C7 says of one step of the loop
C7_Step ==
    pc \in {"SelectingState", "SelectingSite"} =>
        LET line == step'.input
            ok == step'.fault \notin ExternalFaults
        IN  /\ (pc = "SelectingState" /\ line # EXIT /\ Lower(line) \in DOMAIN state_dic /\ ok)
                  => pc' = "SelectingSite" /\ Len(site_dic') = SiteCount(Lower(line)[1])
            /\ (pc = "SelectingSite" /\ line = BACK)
                  => pc' = "SelectingState" /\ state' = <<>>
            /\ (pc = "SelectingSite" /\ C6_IsIndex(line, Len(site_dic)) /\ ok)
                  => pc' = "SelectingSite" /\ site_dic' = site_dic
            /\ line = EXIT => pc' = "terminated"
            /\ (line # EXIT /\ ok) => ~SessionOver(pc')

\* C7: a recognized state name moves SelectingState to SelectingSite with
\* that state's list; 'back' clears the state and moves to SelectingState; a
\* valid index stays in SelectingSite with the same list; 'exit' ends the
\* session, and no other line does (an outside fault apart).
C7_LoopTransitions == [][C7_Step]_vars

\* what C8 says of one step of the loop
C8_Step ==
    LET line == step'.input
           bad == \/ pc = "SelectingState" /\ line # EXIT /\ Lower(line) \notin DOMAIN state_dic
                  \/ pc = "SelectingSite" /\ line \notin {EXIT, BACK}
                        /\ ~C6_IsIndex(line, Len(site_dic))
       IN  bad => /\ step'.printed \in {"[Error] Please a enter proper state name",
                                        "[Error] Invalid input"}
                  /\ get_calls' = get_calls
                  /\ pc' = pc
                  /\ site_dic' = site_dic
                  /\ file' = file

\* C8: an unrecognized state name, or a line at the site prompt that is not
\* 'exit', 'back' or a valid index, prints an error, issues no fetch and
\* leaves the loop where it was, with its site list and the cache unchanged.
C8_InputFaultRecovered == [][C8_Step]_vars

====
